---- MODULE Spec2Model ----
(***************************************************************************)
(* SuperProxy: one SOCKS5 session (handleConnection, sendReply, relay,     *)
(* copyAndClose of proxy.go) together with its two peers, the client and   *)
(* the destination, and the handshake deadline timer.                      *)
(*                                                                         *)
(* Time: the deadline set by client.SetDeadline is kept as the time left   *)
(* on it.  Time passes only where the handler blocks (a read that waits    *)
(* for the client, the connect of the dial); the statements between two    *)
(* blocking calls take no time.                                            *)
(***************************************************************************)
EXTENDS Integers, Sequences, FiniteSets, TLC

\* ------------------------------------------------------------ constants
socks5Version == 5
authNone == 0
authNoAcceptable == 255
cmdConnect == 1
atypIPv4 == 1
atypDomain == 3
atypIPv6 == 4
repSuccess == 0
repGeneralFailure == 1
repNetworkUnreachable == 3
repHostUnreachable == 4
repConnectionRefused == 5
repCommandNotSupported == 7
repAddrTypeNotSupported == 8

HandshakeDeadline == 10
DialTimeout == 15

\* --------------------------------------------------------------- bounds
\* longest method list / most bytes a peer sends through the tunnel
MaxMethods == 2
MaxBytes == 1
\* most bytes a peer sends when the relay is looked at on its own
MaxRelayBytes == 2
\* most connections the listeners accept / most failed Accepts of a listener
MaxSessions == 2
MaxAcceptErrors == 1
\* most proxy entries of a configuration file
MaxEntries == 2

\* the values the client's bytes are drawn from
VerVals == {4, 5}
MethodVals == {0, 2}
CmdVals == {1, 2}
RsvVals == {0}
AtypVals == {1, 3, 4, 9}
DomainLenVals == {0, 2}
V4Addrs == {<<127, 0, 0, 1>>}
V6Addrs == {<<0, 0, 0, 0, 0, 0, 0, 0, 0, 0, 0, 0, 0, 0, 0, 1>>,
            <<0, 0, 0, 0, 0, 0, 0, 0, 0, 0, 255, 255, 127, 0, 0, 1>>}
PortVals == {<<1, 187>>}
\* the endpoint's outbound address (StartProxy) and the ports the kernel
\* may bind the outbound socket to
OutboundIPs == {<<32, 1, 13, 184, 0, 0, 0, 0, 0, 0, 0, 0, 0, 0, 0, 1>>}
EphemeralPorts == {49153}

NoDeadline == -1
None == <<>>

\* --------------------------------------------------------- pure helpers
\* To4, were every 16-byte address with twelve leading zero bytes taken
\* for an IPv4 address as well
To4Compat(ip) ==
  IF Len(ip) = 4 THEN ip
  ELSE IF Len(ip) = 16
          /\ \A i \in 1..10 : ip[i] = 0
          /\ \/ ip[11] = 255 /\ ip[12] = 255
             \/ ip[11] = 0 /\ ip[12] = 0
       THEN SubSeq(ip, 13, 16)
       ELSE None

\* net.IP.To4: the 4-byte form of an IPv4 or IPv4-mapped address, or None
To4(ip) ==
  IF Len(ip) = 4 THEN ip
  ELSE IF Len(ip) = 16
          /\ \A i \in 1..10 : ip[i] = 0
          /\ ip[11] = 255 /\ ip[12] = 255
       THEN SubSeq(ip, 13, 16)
       ELSE None

\* net.IP.To16
To16(ip) ==
  IF Len(ip) = 4
  THEN <<0, 0, 0, 0, 0, 0, 0, 0, 0, 0, 255, 255>> \o ip
  ELSE IF Len(ip) = 16 THEN ip ELSE None

\* net.IP.String followed by the dialer's parse of the host: the text of
\* an IPv4 or IPv4-mapped address is dotted decimal (an IPv4 host), of any
\* other 16-byte address the IPv6 text
IPString(ip) ==
  IF To4(ip) # None THEN [fam |-> "ip4", a |-> To4(ip)]
  ELSE [fam |-> "ip6", a |-> ip]

\* binary.BigEndian.Uint16 / PutUint16
Uint16(b) == b[1] * 256 + b[2]
PutUint16(v) == <<(v \div 256) % 256, v % 256>>

\* copy(dst, src) into a zeroed field of n bytes
CopyInto(n, src) ==
  [i \in 1..n |-> IF i <= Len(src) THEN src[i] ELSE 0]

\* ReplyBytes, were the 4-byte form of the bound address not looked for
ReplyBytesV6Always(rep, bindIP, bindPort) ==
  LET head == <<socks5Version, rep, 0>>
  IN  IF bindIP # None
      THEN head \o <<atypIPv6>> \o CopyInto(16, To16(bindIP))
                \o PutUint16(bindPort)
      ELSE head \o <<atypIPv4>> \o <<0, 0, 0, 0>> \o PutUint16(bindPort)

\* sendReply: the bytes of the reply
ReplyBytes(rep, bindIP, bindPort) ==
  LET head == <<socks5Version, rep, 0>>
  IN  IF bindIP # None
      THEN IF To4(bindIP) # None
           THEN head \o <<atypIPv4>> \o CopyInto(4, To4(bindIP))
                     \o PutUint16(bindPort)
           ELSE head \o <<atypIPv6>> \o CopyInto(16, To16(bindIP))
                     \o PutUint16(bindPort)
      ELSE head \o <<atypIPv4>> \o <<0, 0, 0, 0>> \o PutUint16(bindPort)

\* HasNoAuth, were the loop to look at the first method only
HasNoAuthFirstOnly(ms) == Len(ms) >= 1 /\ ms[1] = authNone

\* the hasNoAuth loop over the methods
HasNoAuth(ms) == \E i \in 1..Len(ms) : ms[i] = authNone

\* DialRep, were the two unreachable classes exchanged
DialRepSwapped(err) ==
  IF err = "ECONNREFUSED" THEN repConnectionRefused
  ELSE IF err = "ENETUNREACH" THEN repHostUnreachable
  ELSE IF err = "EHOSTUNREACH" THEN repNetworkUnreachable
  ELSE repGeneralFailure

\* DialRep, were a name that does not resolve taken for an unreachable host
DialRepNotFoundAsHost(err) ==
  IF err = "ECONNREFUSED" THEN repConnectionRefused
  ELSE IF err = "ENETUNREACH" THEN repNetworkUnreachable
  ELSE IF err = "EHOSTUNREACH" \/ err = "ENOTFOUND" THEN repHostUnreachable
  ELSE repGeneralFailure

\* the status a dial error is mapped to
DialRep(err) ==
  IF err = "ECONNREFUSED" THEN repConnectionRefused
  ELSE IF err = "ENETUNREACH" THEN repNetworkUnreachable
  ELSE IF err = "EHOSTUNREACH" THEN repHostUnreachable
  ELSE repGeneralFailure

\* the error classes of a failed dial
DialErrs == {"ECONNREFUSED", "ENETUNREACH", "EHOSTUNREACH", "ETIMEDOUT",
             "ENOTFOUND", "ENOSUITABLE", "EADDRNOTAVAIL"}


\* ---------------------------------------------------------------- state
VARIABLES
  outboundIP,   \* StartProxy: the endpoint's outbound address
  pc,           \* the statement of handleConnection the session is at
  exit,         \* the return statement taken ("" while running)
  left,         \* time left on the client socket's deadline, or NoDeadline
  hdr,          \* hdr[:] of the greeting
  methods,      \* methods
  reqHdr,       \* reqHdr[:]
  domainLen,    \* domainLen[0] (-1 before it is read)
  destAddr,     \* destAddr, as the host the dialer makes of the string
  destPort,     \* destPort
  out,          \* the Write calls on the client socket, in order
  rout,         \* the Write calls on the destination socket, in order
  dials,        \* the calls of dialer.Dial, in order
  dialErr,      \* err of the dial ("" for nil)
  remote,       \* remote: the local address of the connection, or None
  clientGone,   \* the client has reset the connection
  clientEOF,    \* the client has closed its write side
  remoteGone,   \* the destination has reset the connection
  remoteEOF,    \* the destination has closed its write side
  shut,         \* the halves closed by CloseRead / CloseWrite
  closed,       \* the sockets closed by Close
  cpc,          \* the statement each copyAndClose is at
  chunk,        \* buf[:nr] of each copy direction, read and not yet written
  inq,          \* the bytes each source peer has sent, not yet read
  sent,         \* every byte each source peer has sent
  wg,           \* the WaitGroup counter of relay
  pool,         \* bufPool: the buffers that are free
  held,         \* bufp of each copyAndClose (0: none)
  nbuf          \* buffers made by bufPool.New

hsVars == <<hdr, methods, reqHdr, domainLen, destAddr, destPort>>
peerVars == <<clientGone, clientEOF, remoteGone, remoteEOF>>
copyVars == <<cpc, chunk, inq, sent, wg, pool, held, nbuf, shut, rout>>
connVars == <<outboundIP, pc, exit, left, hsVars, out, dials, dialErr, remote,
              peerVars, closed, copyVars>>

\* the process: one StartProxy per configured endpoint, the sessions they
\* dispatch, and the buffer pool the sessions share
VARIABLES
  spc,          \* the statement each StartProxy is at
  spIP,         \* outboundIP of each StartProxy (None before ParseIPv6)
  spRet,        \* what each StartProxy has returned ("" while running)
  acceptErrs,   \* the accept errors each StartProxy has logged
  conns,        \* the sessions dispatched by line 76, in order
  relays,       \* the calls of relay, each with its two copyAndClose
  bufFree,      \* bufPool: the buffers that are free
  bufMade,      \* buffers made by bufPool.New
  gets,         \* calls of bufPool.Get
  puts          \* calls of bufPool.Put

\* the functions looked at alone, each on the arguments of one call
VARIABLES
  bind,         \* sendReply: rep, bindIP and bindPort of the call, or None
  wr,           \* sendReply: buf[:n] as given to conn.Write, or None
  cfgIn,        \* LoadConfig: the file and what yaml.Unmarshal makes of it
  cfgRet,       \* LoadConfig: the configuration and the error returned
  tuner         \* setSocketOptions: the call, its locals and what follows

fnVars == <<bind, wr, cfgIn, cfgRet, tuner>>
poolVars == <<relays, bufFree, bufMade, gets, puts>>
procVars == <<spc, spIP, spRet, acceptErrs, conns, poolVars, fnVars>>
vars == <<connVars, procVars>>

\* cfg.Proxies: two entries, 2001:db8::1 on the first and 2001:db8::2 on
\* the second
Endpoints == {1, 2}
EntryIPv6(e) == <<32, 1, 13, 184, 0, 0, 0, 0, 0, 0, 0, 0, 0, 0, 0, e>>

\* the process before main starts the listeners
ProcInit ==
  /\ spc = [e \in Endpoints |-> "start"]
  /\ spIP = [e \in Endpoints |-> None]
  /\ spRet = [e \in Endpoints |-> ""]
  /\ acceptErrs = [e \in Endpoints |-> 0]
  /\ conns = <<>>
  /\ relays = <<>>
  /\ bufFree = {} /\ bufMade = 0
  /\ gets = 0 /\ puts = 0
  /\ bind = None /\ wr = None
  /\ cfgIn = None /\ cfgRet = None
  /\ tuner = [platform |-> "", network |-> "", st |-> "idle", next |-> 1,
              set |-> <<>>, failedAt |-> 0, sysErr |-> "", ret |-> "",
              dial |-> ""]

Dirs == {"up", "down"}

Init ==
  /\ outboundIP \in OutboundIPs
  /\ pc = "setDeadline"
  /\ exit = ""
  /\ left = NoDeadline
  /\ hdr = None /\ methods = None /\ reqHdr = None
  /\ domainLen = -1 /\ destAddr = None /\ destPort = 0
  /\ out = <<>> /\ rout = <<>>
  /\ dials = <<>> /\ dialErr = "" /\ remote = None
  /\ clientGone = FALSE /\ clientEOF = FALSE
  /\ remoteGone = FALSE /\ remoteEOF = FALSE
  /\ shut = {} /\ closed = {}
  /\ cpc = [d \in Dirs |-> "idle"]
  /\ chunk = [d \in Dirs |-> <<>>]
  /\ inq = [d \in Dirs |-> <<>>]
  /\ sent = [d \in Dirs |-> <<>>]
  /\ wg = 0
  /\ pool = {} /\ held = [d \in Dirs |-> 0] /\ nbuf = 0
  /\ ProcInit

\* ------------------------------------------------- the client socket
\* the outcome of a Write on the client socket: the deadline is checked
\* first, then the connection
WriteRes ==
  IF left = 0 THEN "timeout"
  ELSE IF clientGone THEN "reset"
  ELSE "ok"

ClientWrite(by, data) ==
  out' = Append(out, [by |-> by, data |-> data, res |-> WriteRes])

\* io.ReadFull on the client socket can return the bytes asked for
CanRead == left # 0 /\ ~clientGone /\ ~clientEOF

\* Return, were the deferred remote.Close missing
ReturnLeak(why) ==
  /\ exit' = why
  /\ pc' = "closeClient"

\* return: the deferred Close calls run next
Return(why) ==
  /\ exit' = why
  /\ pc' = IF remote # None THEN "closeRemote" ELSE "closeClient"

\* line 87
SetDeadline ==
  /\ pc = "setDeadline"
  /\ left' = HandshakeDeadline
  /\ pc' = "readHdr"
  /\ UNCHANGED <<procVars,
                 outboundIP, exit, hsVars, out, dials, dialErr, remote,
                 peerVars, closed, copyVars>>

\* the statements that wait for bytes of the client
ReadPcs == {"readHdr", "readMethods", "readReqHdr", "readAddr4",
            "readDomainLen", "readDomain", "readAddr6", "readPort"}

\* time passes while a read waits
Tick ==
  /\ pc \in ReadPcs
  /\ left > 0
  /\ left' = left - 1
  /\ UNCHANGED <<procVars,
                 outboundIP, pc, exit, hsVars, out, dials, dialErr, remote,
                 peerVars, closed, copyVars>>

\* ReadFail, were a failed read answered with a general failure
ReadFailReplies ==
  /\ pc \in ReadPcs
  /\ left = 0 \/ clientGone \/ clientEOF
  /\ out' = Append(out, [by |-> "sendReply",
                         data |-> <<5, 1, 0, 1, 0, 0, 0, 0, 0, 0>>,
                         res |-> IF left = 0 THEN "timeout"
                                 ELSE IF clientGone THEN "reset" ELSE "ok"])
  /\ exit' = pc
  /\ pc' = "closeClient"
  /\ UNCHANGED <<procVars,
                 outboundIP, left, hsVars, dials, dialErr, remote,
                 peerVars, closed, copyVars>>

\* a read of the handshake fails (deadline, end of stream, reset):
\* every such branch returns
ReadFail ==
  /\ pc \in ReadPcs
  /\ ~CanRead
  /\ Return(pc)
  /\ UNCHANGED <<procVars,
                 outboundIP, left, hsVars, out, dials, dialErr, remote,
                 peerVars, closed, copyVars>>

\* lines 91-102
ReadHdr ==
  /\ pc = "readHdr"
  /\ CanRead
  /\ \E ver \in VerVals, n \in 0..MaxMethods :
       /\ hdr' = <<ver, n>>
       /\ IF ver # socks5Version THEN Return("badVersion")
          ELSE IF n = 0 \/ n > 255 THEN Return("noMethods")
          ELSE pc' = "readMethods" /\ exit' = exit
  /\ UNCHANGED <<procVars,
                 outboundIP, left, methods, reqHdr, domainLen, destAddr, destPort, out,
                 dials, dialErr, remote, peerVars, closed, copyVars>>

\* the method lists of length n
MethodLists(n) == [1..n -> MethodVals]

\* lines 104-109
ReadMethods ==
  /\ pc = "readMethods"
  /\ CanRead
  /\ \E ms \in MethodLists(hdr[2]) : methods' = ms
  /\ pc' = "selectMethod"
  /\ UNCHANGED <<procVars,
                 outboundIP, exit, left, hdr, reqHdr, domainLen, destAddr, destPort,
                 out, dials, dialErr, remote, peerVars, closed, copyVars>>

\* SelectMethod, were the deadline set anew for the request
SelectMethodRearm ==
  /\ pc = "selectMethod"
  /\ IF ~HasNoAuth(methods)
     THEN /\ ClientWrite("methodReject", <<socks5Version, authNoAcceptable>>)
          /\ Return("noAcceptable")
          /\ left' = left
     ELSE /\ ClientWrite("methodSelect", <<socks5Version, authNone>>)
          /\ IF WriteRes # "ok" THEN Return("selectWrite") /\ left' = left
             ELSE pc' = "readReqHdr" /\ exit' = exit
                  /\ left' = HandshakeDeadline
  /\ UNCHANGED <<procVars,
                 outboundIP, hsVars, dials, dialErr, remote,
                 peerVars, closed, copyVars>>

\* SelectMethod, were the return after the rejection missing
SelectMethodNoReturn ==
  /\ pc = "selectMethod"
  /\ IF ~HasNoAuth(methods)
     THEN /\ ClientWrite("methodReject", <<socks5Version, authNoAcceptable>>)
          /\ pc' = "readReqHdr" /\ exit' = exit
     ELSE /\ ClientWrite("methodSelect", <<socks5Version, authNone>>)
          /\ IF WriteRes # "ok" THEN Return("selectWrite")
             ELSE pc' = "readReqHdr" /\ exit' = exit
  /\ UNCHANGED <<procVars,
                 outboundIP, left, hsVars, dials, dialErr, remote,
                 peerVars, closed, copyVars>>

\* lines 111-129
SelectMethod ==
  /\ pc = "selectMethod"
  /\ IF ~HasNoAuth(methods)
     THEN /\ ClientWrite("methodReject", <<socks5Version, authNoAcceptable>>)
          /\ Return("noAcceptable")
     ELSE /\ ClientWrite("methodSelect", <<socks5Version, authNone>>)
          /\ IF WriteRes # "ok" THEN Return("selectWrite")
             ELSE pc' = "readReqHdr" /\ exit' = exit
  /\ UNCHANGED <<procVars,
                 outboundIP, left, hsVars, dials, dialErr, remote,
                 peerVars, closed, copyVars>>

\* ReadReqHdr, were the address type looked at before the command
ReadReqHdrAtypFirst ==
  /\ pc = "readReqHdr"
  /\ CanRead
  /\ \E ver \in VerVals, cmd \in CmdVals, rsv \in RsvVals, atyp \in AtypVals :
       /\ reqHdr' = <<ver, cmd, rsv, atyp>>
       /\ IF ver # socks5Version THEN Return("badReqVersion")
          ELSE /\ exit' = exit
               /\ pc' = IF atyp \notin {atypIPv4, atypDomain, atypIPv6}
                        THEN "replyAtyp"
                        ELSE IF cmd # cmdConnect THEN "replyCmd"
                        ELSE IF atyp = atypIPv4 THEN "readAddr4"
                        ELSE IF atyp = atypDomain THEN "readDomainLen"
                        ELSE "readAddr6"
  /\ UNCHANGED <<procVars,
                 outboundIP, left, hdr, methods, domainLen, destAddr,
                 destPort, out, dials, dialErr, remote, peerVars, closed,
                 copyVars>>

\* lines 131-151 and the default case, without the sendReply calls
ReadReqHdr ==
  /\ pc = "readReqHdr"
  /\ CanRead
  /\ \E ver \in VerVals, cmd \in CmdVals, rsv \in RsvVals, atyp \in AtypVals :
       /\ reqHdr' = <<ver, cmd, rsv, atyp>>
       /\ IF ver # socks5Version THEN Return("badReqVersion")
          ELSE /\ exit' = exit
               /\ pc' = IF cmd # cmdConnect THEN "replyCmd"
                        ELSE IF atyp = atypIPv4 THEN "readAddr4"
                        ELSE IF atyp = atypDomain THEN "readDomainLen"
                        ELSE IF atyp = atypIPv6 THEN "readAddr6"
                        ELSE "replyAtyp"
  /\ UNCHANGED <<procVars,
                 outboundIP, left, hdr, methods, domainLen, destAddr, destPort, out,
                 dials, dialErr, remote, peerVars, closed, copyVars>>

\* a rejection: sendReply(client, rep, nil, 0) and return
Reject(at, rep, why) ==
  /\ pc = at
  /\ ClientWrite("sendReply", ReplyBytes(rep, None, 0))
  /\ Return(why)
  /\ UNCHANGED <<procVars,
                 outboundIP, left, hsVars, dials, dialErr, remote,
                 peerVars, closed, copyVars>>

\* ReplyCmd, were the return after sendReply missing: the switch on the
\* address type comes next
ReplyCmdNoReturn ==
  /\ pc = "replyCmd"
  /\ ClientWrite("sendReply", ReplyBytes(repCommandNotSupported, None, 0))
  /\ exit' = exit
  /\ pc' = IF reqHdr[4] = atypIPv4 THEN "readAddr4"
           ELSE IF reqHdr[4] = atypDomain THEN "readDomainLen"
           ELSE IF reqHdr[4] = atypIPv6 THEN "readAddr6"
           ELSE "replyAtyp"
  /\ UNCHANGED <<procVars,
                 outboundIP, left, hsVars, dials, dialErr, remote,
                 peerVars, closed, copyVars>>

\* ReplyCmd, were the status that of an unsupported address type
ReplyCmdWrongStatus == Reject("replyCmd", repAddrTypeNotSupported, "cmd")

\* lines 142-145
ReplyCmd == Reject("replyCmd", repCommandNotSupported, "cmd")

\* lines 182-184
ReplyAtyp == Reject("replyAtyp", repAddrTypeNotSupported, "atyp")

\* lines 164-167
ReplyEmptyDomain == Reject("replyEmptyDomain", repGeneralFailure, "emptyDomain")

\* lines 152-157
ReadAddr4 ==
  /\ pc = "readAddr4"
  /\ CanRead
  /\ \E a \in V4Addrs : destAddr' = IPString(a)
  /\ pc' = "readPort"
  /\ UNCHANGED <<procVars,
                 outboundIP, exit, left, hdr, methods, reqHdr, domainLen, destPort, out,
                 dials, dialErr, remote, peerVars, closed, copyVars>>

\* lines 175-180
ReadAddr6 ==
  /\ pc = "readAddr6"
  /\ CanRead
  /\ \E a \in V6Addrs : destAddr' = IPString(a)
  /\ pc' = "readPort"
  /\ UNCHANGED <<procVars,
                 outboundIP, exit, left, hdr, methods, reqHdr, domainLen, destPort, out,
                 dials, dialErr, remote, peerVars, closed, copyVars>>

\* ReadDomainLen, were the zero length not checked
ReadDomainLenNoCheck ==
  /\ pc = "readDomainLen"
  /\ CanRead
  /\ \E n \in DomainLenVals : domainLen' = n
  /\ pc' = "readDomain"
  /\ UNCHANGED <<procVars,
                 outboundIP, exit, left, hdr, methods, reqHdr, destAddr,
                 destPort, out, dials, dialErr, remote, peerVars, closed,
                 copyVars>>

\* lines 159-167: the length byte of the name
ReadDomainLen ==
  /\ pc = "readDomainLen"
  /\ CanRead
  /\ \E n \in DomainLenVals :
       /\ domainLen' = n
       /\ pc' = IF n = 0 THEN "replyEmptyDomain" ELSE "readDomain"
  /\ UNCHANGED <<procVars,
                 outboundIP, exit, left, hdr, methods, reqHdr, destAddr,
                 destPort, out, dials, dialErr, remote, peerVars, closed,
                 copyVars>>

\* lines 168-173: the bytes of the name (its i-th letter is 96 + i)
ReadDomain ==
  /\ pc = "readDomain"
  /\ CanRead
  /\ destAddr' = [fam |-> "name", a |-> [i \in 1..domainLen |-> 96 + i]]
  /\ pc' = "readPort"
  /\ UNCHANGED <<procVars,
                 outboundIP, exit, left, hdr, methods, reqHdr, domainLen,
                 destPort, out, dials, dialErr, remote, peerVars, closed,
                 copyVars>>

\* lines 187-194
ReadPort ==
  /\ pc = "readPort"
  /\ CanRead
  /\ \E p \in PortVals : destPort' = Uint16(p)
  /\ pc' = "dial"
  /\ UNCHANGED <<procVars,
                 outboundIP, exit, left, hdr, methods, reqHdr, domainLen, destAddr, out,
                 dials, dialErr, remote, peerVars, closed, copyVars>>


\* ------------------------------------------------------------- the dial
\* what dialer.Dial can come to for a host: [err, d (the time it took),
\* port (the local port of the connection)].  With an IPv6 LocalAddr the
\* dialer finds no suitable address for an IPv4 host; a name may not
\* resolve, or resolve to IPv4 addresses only; the connect times out after
\* DialTimeout
DialOutcomes(host) ==
  IF host.fam = "ip4"
  THEN {[err |-> "ENOSUITABLE", d |-> 0, port |-> 0]}
  ELSE {[err |-> "", d |-> d, port |-> p] :
           d \in 0..(DialTimeout - 1), p \in EphemeralPorts}
       \cup {[err |-> e, d |-> d, port |-> 0] :
           e \in {"ECONNREFUSED", "ENETUNREACH", "EHOSTUNREACH",
                  "EADDRNOTAVAIL"},
           d \in 0..(DialTimeout - 1)}
       \cup {[err |-> "ETIMEDOUT", d |-> DialTimeout, port |-> 0]}
       \cup IF host.fam = "name"
            THEN {[err |-> e, d |-> d, port |-> 0] :
                    e \in {"ENOTFOUND", "ENOSUITABLE"},
                    d \in 0..(DialTimeout - 1)}
            ELSE {}

\* the deadline timer after d more units of time
After(d) == IF left = NoDeadline THEN NoDeadline
            ELSE IF left > d THEN left - d ELSE 0

\* lines 196-205
Dial ==
  /\ pc = "dial"
  /\ dials' = Append(dials, [local |-> outboundIP, host |-> destAddr,
                             port |-> destPort])
  /\ \E o \in DialOutcomes(destAddr) :
       /\ dialErr' = o.err
       /\ left' = After(o.d)
       /\ IF o.err = ""
          THEN remote' = [ip |-> outboundIP, port |-> o.port]
               /\ pc' = "replySuccess"
          ELSE remote' = remote /\ pc' = "replyDialErr"
  /\ UNCHANGED <<procVars,
                 outboundIP, exit, hsVars, out, peerVars, closed, copyVars>>

\* lines 205-216
ReplyDialErr == Reject("replyDialErr", DialRep(dialErr), "dialErr")

\* lines 219-221
ReplySuccess ==
  /\ pc = "replySuccess"
  /\ ClientWrite("sendReply", ReplyBytes(repSuccess, remote.ip, remote.port))
  /\ pc' = "clearDeadlines"
  /\ UNCHANGED <<procVars,
                 outboundIP, exit, left, hsVars, dials, dialErr, remote,
                 peerVars, closed, copyVars>>

\* ClearDeadlines, were the client's deadline left as it is
ClearDeadlinesSkip ==
  /\ pc = "clearDeadlines"
  /\ left' = left
  /\ pc' = "relay"
  /\ UNCHANGED <<procVars,
                 outboundIP, exit, hsVars, out, dials, dialErr, remote,
                 peerVars, closed, copyVars>>

\* lines 223-225
ClearDeadlines ==
  /\ pc = "clearDeadlines"
  /\ left' = NoDeadline
  /\ pc' = "relay"
  /\ UNCHANGED <<procVars,
                 outboundIP, exit, hsVars, out, dials, dialErr, remote,
                 peerVars, closed, copyVars>>

\* ------------------------------------------------------------ the relay
\* copyAndClose(remote, client) is "up", copyAndClose(client, remote) "down"
Src(d) == IF d = "up" THEN "client" ELSE "remote"
Dst(d) == IF d = "up" THEN "remote" ELSE "client"
Gone(sock) == IF sock = "client" THEN clientGone ELSE remoteGone
Eof(sock) == IF sock = "client" THEN clientEOF ELSE remoteEOF

\* relay: wg.Add(2) and the two go statements
StartRelay ==
  /\ pc = "relay"
  /\ wg' = 2
  /\ cpc' = [d \in Dirs |-> "get"]
  /\ pc' = "wait"
  /\ UNCHANGED <<procVars,
                 outboundIP, exit, left, hsVars, out, dials, dialErr, remote,
                 peerVars, closed, chunk, inq, sent, pool, held, nbuf, shut,
                 rout>>

\* line 286: bufPool.Get gives a free buffer, or a new one
CopyGet(d) ==
  /\ cpc[d] = "get"
  /\ \/ \E b \in pool :
          /\ pool' = pool \ {b}
          /\ held' = [held EXCEPT ![d] = b]
          /\ nbuf' = nbuf
     \/ /\ nbuf' = nbuf + 1
        /\ held' = [held EXCEPT ![d] = nbuf + 1]
        /\ pool' = pool
  /\ cpc' = [cpc EXCEPT ![d] = "read"]
  /\ UNCHANGED <<procVars,
                 outboundIP, pc, exit, left, hsVars, out, dials, dialErr,
                 remote, peerVars, closed, chunk, inq, sent, wg, shut, rout>>

\* CopyRead, were the bytes read left in the socket
CopyReadDup(d) ==
  /\ cpc[d] = "read"
  /\ \/ /\ ~Gone(Src(d)) /\ <<Src(d), "r">> \notin shut
        /\ \E k \in 1..Len(inq[d]) :
             chunk' = [chunk EXCEPT ![d] = SubSeq(inq[d], 1, k)]
        /\ inq' = inq
        /\ cpc' = [cpc EXCEPT ![d] = "write"]
     \/ /\ \/ Gone(Src(d))
           \/ <<Src(d), "r">> \in shut
           \/ Eof(Src(d)) /\ inq[d] = <<>>
        /\ cpc' = [cpc EXCEPT ![d] = "closeWrite"]
        /\ UNCHANGED <<chunk, inq>>
  /\ UNCHANGED <<procVars,
                 outboundIP, pc, exit, left, hsVars, out, dials, dialErr,
                 remote, peerVars, closed, sent, wg, pool, held, nbuf, shut,
                 rout>>

\* CopyRead, were the end of the stream not taken as the end of the copy
CopyReadNoEof(d) ==
  /\ cpc[d] = "read"
  /\ \/ /\ ~Gone(Src(d)) /\ <<Src(d), "r">> \notin shut
        /\ \E k \in 1..Len(inq[d]) :
             /\ chunk' = [chunk EXCEPT ![d] = SubSeq(inq[d], 1, k)]
             /\ inq' = [inq EXCEPT ![d] = SubSeq(inq[d], k + 1, Len(inq[d]))]
        /\ cpc' = [cpc EXCEPT ![d] = "write"]
     \/ /\ Gone(Src(d)) \/ <<Src(d), "r">> \in shut
        /\ cpc' = [cpc EXCEPT ![d] = "closeWrite"]
        /\ UNCHANGED <<chunk, inq>>
  /\ UNCHANGED <<procVars,
                 outboundIP, pc, exit, left, hsVars, out, dials, dialErr,
                 remote, peerVars, closed, sent, wg, pool, held, nbuf, shut,
                 rout>>

\* line 289, the Read of io.CopyBuffer: some of the bytes that have
\* arrived, or the end of the stream (also when the read side of src has
\* been shut), or an error
CopyRead(d) ==
  /\ cpc[d] = "read"
  /\ \/ /\ ~Gone(Src(d)) /\ <<Src(d), "r">> \notin shut
        /\ \E k \in 1..Len(inq[d]) :
             /\ chunk' = [chunk EXCEPT ![d] = SubSeq(inq[d], 1, k)]
             /\ inq' = [inq EXCEPT ![d] = SubSeq(inq[d], k + 1, Len(inq[d]))]
        /\ cpc' = [cpc EXCEPT ![d] = "write"]
     \/ /\ \/ Gone(Src(d))
           \/ <<Src(d), "r">> \in shut
           \/ Eof(Src(d)) /\ inq[d] = <<>>
        /\ cpc' = [cpc EXCEPT ![d] = "closeWrite"]
        /\ UNCHANGED <<chunk, inq>>
  /\ UNCHANGED <<procVars,
                 outboundIP, pc, exit, left, hsVars, out, dials, dialErr,
                 remote, peerVars, closed, sent, wg, pool, held, nbuf, shut,
                 rout>>

\* the outcome of a Write of io.CopyBuffer on dst: a socket whose write
\* side has been shut takes no more bytes
CopyWriteRes(d) ==
  IF <<Dst(d), "w">> \in shut THEN "shut"
  ELSE IF d = "up" THEN (IF remoteGone THEN "reset" ELSE "ok")
  ELSE WriteRes

\* line 289, the Write of io.CopyBuffer: an error ends the loop
CopyWrite(d) ==
  /\ cpc[d] = "write"
  /\ IF d = "up"
     THEN /\ rout' = Append(rout, [data |-> chunk[d], res |-> CopyWriteRes(d)])
          /\ out' = out
     ELSE /\ out' = Append(out, [by |-> "relay", data |-> chunk[d],
                                 res |-> CopyWriteRes(d)])
          /\ rout' = rout
  /\ cpc' = [cpc EXCEPT ![d] =
               IF CopyWriteRes(d) # "ok" THEN "closeWrite" ELSE "read"]
  /\ chunk' = [chunk EXCEPT ![d] = <<>>]
  /\ UNCHANGED <<procVars,
                 outboundIP, pc, exit, left, hsVars, dials, dialErr, remote,
                 peerVars, closed, inq, sent, wg, pool, held, nbuf, shut>>

\* CopyCloseWrite, were the write side of src closed
CopyCloseWriteSrc(d) ==
  /\ cpc[d] = "closeWrite"
  /\ shut' = shut \cup {<<Src(d), "w">>}
  /\ cpc' = [cpc EXCEPT ![d] = "closeRead"]
  /\ UNCHANGED <<procVars,
                 outboundIP, pc, exit, left, hsVars, out, dials, dialErr,
                 remote, peerVars, closed, chunk, inq, sent, wg, pool, held,
                 nbuf, rout>>

\* lines 291-294
CopyCloseWrite(d) ==
  /\ cpc[d] = "closeWrite"
  /\ shut' = shut \cup {<<Dst(d), "w">>}
  /\ cpc' = [cpc EXCEPT ![d] = "closeRead"]
  /\ UNCHANGED <<procVars,
                 outboundIP, pc, exit, left, hsVars, out, dials, dialErr,
                 remote, peerVars, closed, chunk, inq, sent, wg, pool, held,
                 nbuf, rout>>

\* lines 295-297
CopyCloseRead(d) ==
  /\ cpc[d] = "closeRead"
  /\ shut' = shut \cup {<<Src(d), "r">>}
  /\ cpc' = [cpc EXCEPT ![d] = "put"]
  /\ UNCHANGED <<procVars,
                 outboundIP, pc, exit, left, hsVars, out, dials, dialErr,
                 remote, peerVars, closed, chunk, inq, sent, wg, pool, held,
                 nbuf, rout>>

\* the deferred calls: bufPool.Put (line 287), then wg.Done (lines 270, 276)
CopyPut(d) ==
  /\ cpc[d] = "put"
  /\ pool' = pool \cup {held[d]}
  /\ held' = [held EXCEPT ![d] = 0]
  /\ wg' = wg - 1
  /\ cpc' = [cpc EXCEPT ![d] = "done"]
  /\ UNCHANGED <<procVars,
                 outboundIP, pc, exit, left, hsVars, out, dials, dialErr,
                 remote, peerVars, closed, chunk, inq, sent, nbuf, shut, rout>>

\* RelayWait, were the WaitGroup to count one direction only
RelayWaitOne ==
  /\ pc = "wait"
  /\ wg <= 1
  /\ Return("relayDone")
  /\ UNCHANGED <<procVars,
                 outboundIP, left, hsVars, out, dials, dialErr, remote,
                 peerVars, closed, copyVars>>

\* line 280: wg.Wait returns, relay returns, handleConnection returns
RelayWait ==
  /\ pc = "wait"
  /\ wg = 0
  /\ Return("relayDone")
  /\ UNCHANGED <<procVars,
                 outboundIP, left, hsVars, out, dials, dialErr, remote,
                 peerVars, closed, copyVars>>

\* line 217: the deferred remote.Close
CloseRemote ==
  /\ pc = "closeRemote"
  /\ closed' = closed \cup {"remote"}
  /\ pc' = "closeClient"
  /\ UNCHANGED <<procVars,
                 outboundIP, exit, left, hsVars, out, dials, dialErr, remote,
                 peerVars, copyVars>>

\* line 84: the deferred client.Close
CloseClient ==
  /\ pc = "closeClient"
  /\ closed' = closed \cup {"client"}
  /\ pc' = "done"
  /\ UNCHANGED <<procVars,
                 outboundIP, exit, left, hsVars, out, dials, dialErr, remote,
                 peerVars, copyVars>>

\* ------------------------------------------------------------ the peers
ClientAbort ==
  /\ "client" \notin closed /\ ~clientGone
  /\ clientGone' = TRUE
  /\ UNCHANGED <<procVars,
                 outboundIP, pc, exit, left, hsVars, out, dials, dialErr,
                 remote, clientEOF, remoteGone, remoteEOF, closed, copyVars>>

ClientShutdown ==
  /\ "client" \notin closed /\ ~clientGone /\ ~clientEOF
  /\ clientEOF' = TRUE
  /\ UNCHANGED <<procVars,
                 outboundIP, pc, exit, left, hsVars, out, dials, dialErr,
                 remote, clientGone, remoteGone, remoteEOF, closed, copyVars>>

RemoteAbort ==
  /\ remote # None /\ "remote" \notin closed /\ ~remoteGone
  /\ remoteGone' = TRUE
  /\ UNCHANGED <<procVars,
                 outboundIP, pc, exit, left, hsVars, out, dials, dialErr,
                 remote, clientGone, clientEOF, remoteEOF, closed, copyVars>>

RemoteShutdown ==
  /\ remote # None /\ "remote" \notin closed /\ ~remoteGone /\ ~remoteEOF
  /\ remoteEOF' = TRUE
  /\ UNCHANGED <<procVars,
                 outboundIP, pc, exit, left, hsVars, out, dials, dialErr,
                 remote, clientGone, clientEOF, remoteGone, closed, copyVars>>

\* a peer of the tunnel sends its next byte, of n at most (the k-th byte of
\* the client is 10 + k, of the destination 20 + k)
PeerSendUpTo(d, n) ==
  /\ remote # None /\ closed = {}
  /\ ~Gone(Src(d)) /\ ~Eof(Src(d))
  /\ Len(sent[d]) < n
  /\ LET b == (IF d = "up" THEN 10 ELSE 20) + Len(sent[d]) + 1
     IN  /\ sent' = [sent EXCEPT ![d] = Append(sent[d], b)]
         /\ inq' = [inq EXCEPT ![d] = Append(inq[d], b)]
  /\ UNCHANGED <<procVars,
                 outboundIP, pc, exit, left, hsVars, out, dials, dialErr,
                 remote, peerVars, closed, cpc, chunk, wg, pool, held, nbuf,
                 shut, rout>>

PeerSend(d) == PeerSendUpTo(d, MaxBytes)

RelayPeerSend(d) == PeerSendUpTo(d, MaxRelayBytes)

\* ------------------------------------------------------- specification
Next ==
  \/ SetDeadline \/ Tick \/ ReadFail
  \/ ReadHdr \/ ReadMethods \/ SelectMethod
  \/ ReadReqHdr \/ ReplyCmd \/ ReplyAtyp \/ ReplyEmptyDomain
  \/ ReadAddr4 \/ ReadAddr6 \/ ReadDomainLen \/ ReadDomain \/ ReadPort
  \/ Dial \/ ReplyDialErr \/ ReplySuccess \/ ClearDeadlines
  \/ StartRelay \/ RelayWait \/ CloseRemote \/ CloseClient
  \/ \E d \in Dirs : CopyGet(d)
  \/ \E d \in Dirs : CopyRead(d)
  \/ \E d \in Dirs : CopyWrite(d)
  \/ \E d \in Dirs : CopyCloseWrite(d)
  \/ \E d \in Dirs : CopyCloseRead(d)
  \/ \E d \in Dirs : CopyPut(d)
  \/ \E d \in Dirs : PeerSend(d)
  \/ ClientAbort \/ ClientShutdown \/ RemoteAbort \/ RemoteShutdown

Spec == Init /\ [][Next]_vars

\* ------------------------------------------- the relay, looked at alone
\* the session as line 228 finds it: greeting 05 01 00, request
\* 05 01 00 04 ::1 01 BB, the dial has succeeded, the success reply is
\* written and the deadline cleared
RelayInit ==
  /\ outboundIP \in OutboundIPs
  /\ pc = "relay"
  /\ exit = ""
  /\ left = NoDeadline
  /\ hdr = <<5, 1>> /\ methods = <<0>> /\ reqHdr = <<5, 1, 0, 4>>
  /\ domainLen = -1
  /\ destAddr = IPString(<<0, 0, 0, 0, 0, 0, 0, 0, 0, 0, 0, 0, 0, 0, 0, 1>>)
  /\ destPort = Uint16(<<1, 187>>)
  /\ \E p \in EphemeralPorts :
       /\ remote = [ip |-> outboundIP, port |-> p]
       /\ out = <<[by |-> "methodSelect", data |-> <<5, 0>>, res |-> "ok"],
                  [by |-> "sendReply",
                   data |-> ReplyBytes(repSuccess, outboundIP, p),
                   res |-> "ok"]>>
  /\ rout = <<>>
  /\ dials = <<[local |-> outboundIP, host |-> destAddr, port |-> destPort]>>
  /\ dialErr = ""
  /\ clientGone = FALSE /\ clientEOF = FALSE
  /\ remoteGone = FALSE /\ remoteEOF = FALSE
  /\ shut = {} /\ closed = {}
  /\ cpc = [d \in Dirs |-> "idle"]
  /\ chunk = [d \in Dirs |-> <<>>]
  /\ inq = [d \in Dirs |-> <<>>]
  /\ sent = [d \in Dirs |-> <<>>]
  /\ wg = 0
  /\ pool = {} /\ held = [d \in Dirs |-> 0] /\ nbuf = 0
  /\ ProcInit

\* the steps of the handler and of its two copy goroutines from line 228 on
RelaySteps ==
  \/ StartRelay \/ RelayWait \/ CloseRemote \/ CloseClient
  \/ \E d \in Dirs : CopyGet(d)
  \/ \E d \in Dirs : CopyRead(d)
  \/ \E d \in Dirs : CopyWrite(d)
  \/ \E d \in Dirs : CopyCloseWrite(d)
  \/ \E d \in Dirs : CopyCloseRead(d)
  \/ \E d \in Dirs : CopyPut(d)

RelayNext ==
  \/ RelaySteps
  \/ \E d \in Dirs : RelayPeerSend(d)
  \/ ClientAbort \/ ClientShutdown \/ RemoteAbort \/ RemoteShutdown

SpecRelay == RelayInit /\ [][RelayNext]_vars

\* the scheduler runs every goroutine that can take a step
RelayFairness ==
  /\ WF_vars(StartRelay) /\ WF_vars(RelayWait)
  /\ WF_vars(CloseRemote) /\ WF_vars(CloseClient)
  /\ \A d \in Dirs :
       /\ WF_vars(CopyGet(d)) /\ WF_vars(CopyRead(d)) /\ WF_vars(CopyWrite(d))
       /\ WF_vars(CopyCloseWrite(d)) /\ WF_vars(CopyCloseRead(d))
       /\ WF_vars(CopyPut(d))

SpecRelayFair == SpecRelay /\ RelayFairness

\* ------------------------------------- the listeners and their sessions
\* a session as line 76 starts it: the endpoint it was accepted on, the
\* outboundIP it was handed, the accept errors its listener had logged, the
\* statement it is at and the LocalAddr of its dial
NewConn(e, ip) ==
  [ep |-> e, ip |-> ip, errs |-> acceptErrs[e], st |-> "handshake",
   local |-> None]

\* lines 52-64: ParseIPv6 of the entry's address and net.Listen succeed
SpListen(e) ==
  /\ spc[e] = "start"
  /\ spIP' = [spIP EXCEPT ![e] = To16(EntryIPv6(e))]
  /\ spc' = [spc EXCEPT ![e] = "accept"]
  /\ UNCHANGED <<connVars, fnVars, spRet, acceptErrs, conns, poolVars>>

\* lines 58-61: net.Listen fails, StartProxy returns the error
SpListenFail(e) ==
  /\ spc[e] = "start"
  /\ spIP' = [spIP EXCEPT ![e] = To16(EntryIPv6(e))]
  /\ spc' = [spc EXCEPT ![e] = "returned"]
  /\ spRet' = [spRet EXCEPT ![e] = "error"]
  /\ UNCHANGED <<connVars, fnVars, acceptErrs, conns, poolVars>>

\* SpAccept, were outboundIP one variable shared by the listeners
SpAcceptSharedIP(e) ==
  /\ spc[e] = "accept"
  /\ Len(conns) < MaxSessions
  /\ \E e2 \in Endpoints :
       /\ spIP[e2] # None
       /\ conns' = Append(conns, NewConn(e, spIP[e2]))
  /\ UNCHANGED <<connVars, fnVars, spc, spIP, spRet, acceptErrs, poolVars>>

\* lines 67 and 76: Accept gives a connection, a goroutine is started on it
\* with the listener's outboundIP
SpAccept(e) ==
  /\ spc[e] = "accept"
  /\ Len(conns) < MaxSessions
  /\ conns' = Append(conns, NewConn(e, spIP[e]))
  /\ UNCHANGED <<connVars, fnVars, spc, spIP, spRet, acceptErrs, poolVars>>

\* SpAcceptErr, were the error returned
SpAcceptErrReturns(e) ==
  /\ spc[e] = "accept"
  /\ acceptErrs[e] < MaxAcceptErrors
  /\ acceptErrs' = [acceptErrs EXCEPT ![e] = @ + 1]
  /\ spc' = [spc EXCEPT ![e] = "returned"]
  /\ spRet' = [spRet EXCEPT ![e] = "error"]
  /\ UNCHANGED <<connVars, fnVars, spIP, conns, poolVars>>

\* lines 68-74: Accept fails with an error that is not net.ErrClosed; it is
\* logged and the loop goes on
SpAcceptErr(e) ==
  /\ spc[e] = "accept"
  /\ acceptErrs[e] < MaxAcceptErrors
  /\ acceptErrs' = [acceptErrs EXCEPT ![e] = @ + 1]
  /\ UNCHANGED <<connVars, fnVars, spc, spIP, spRet, conns, poolVars>>

\* lines 68-72: Accept fails with net.ErrClosed, StartProxy returns nil
SpAcceptClosed(e) ==
  /\ spc[e] = "accept"
  /\ spc' = [spc EXCEPT ![e] = "returned"]
  /\ spRet' = [spRet EXCEPT ![e] = "nil"]
  /\ UNCHANGED <<connVars, fnVars, spIP, acceptErrs, conns, poolVars>>

\* lines 87-194: the session returns before it dials
SessDrop(s) ==
  /\ conns[s].st = "handshake"
  /\ conns' = [conns EXCEPT ![s].st = "done"]
  /\ UNCHANGED <<connVars, fnVars, spc, spIP, spRet, acceptErrs, poolVars>>

\* lines 197-228: the dial, with the session's outboundIP as LocalAddr; the
\* session relays when it succeeds and returns when it fails
SessDial(s) ==
  /\ conns[s].st = "handshake"
  /\ \E ok \in BOOLEAN :
       conns' = [conns EXCEPT ![s].local = conns[s].ip,
                              ![s].st = IF ok THEN "relay" ELSE "done"]
  /\ UNCHANGED <<connVars, fnVars, spc, spIP, spRet, acceptErrs, poolVars>>

\* line 228 and the deferred Closes: relay returns, the session ends
SessEnd(s) ==
  /\ conns[s].st = "relay"
  /\ conns' = [conns EXCEPT ![s].st = "done"]
  /\ UNCHANGED <<connVars, fnVars, spc, spIP, spRet, acceptErrs, poolVars>>

ProcNext ==
  \/ \E e \in Endpoints : SpListen(e)
  \/ \E e \in Endpoints : SpListenFail(e)
  \/ \E e \in Endpoints : SpAccept(e)
  \/ \E e \in Endpoints : SpAcceptErr(e)
  \/ \E e \in Endpoints : SpAcceptClosed(e)
  \/ \E s \in DOMAIN conns : SessDrop(s)
  \/ \E s \in DOMAIN conns : SessDial(s)
  \/ \E s \in DOMAIN conns : SessEnd(s)

SpecProc == Init /\ [][ProcNext]_vars

\* ------------------------------------- the buffer pool and its sessions
\* a call of relay: for each of its two copyAndClose the statement it is
\* at, its bufp (0: none), its calls of Get and of Put, and the way
\* io.CopyBuffer ended; done when wg.Wait has returned
NewRelay ==
  [cp |-> [d \in Dirs |-> "get"],
   bufp |-> [d \in Dirs |-> 0],
   nget |-> [d \in Dirs |-> 0],
   nput |-> [d \in Dirs |-> 0],
   how |-> [d \in Dirs |-> ""],
   done |-> FALSE]

\* lines 264-279: a session reaches relay, which starts its two copies
PoolRelay ==
  /\ Len(relays) < MaxSessions
  /\ relays' = Append(relays, NewRelay)
  /\ UNCHANGED <<connVars, fnVars, spc, spIP, spRet, acceptErrs, conns, bufFree,
                 bufMade, gets, puts>>

\* PoolGet, were a free buffer handed out and left in the pool
PoolGetShared(s, d) ==
  /\ relays[s].cp[d] = "get"
  /\ \/ \E b \in bufFree :
          /\ relays' = [relays EXCEPT ![s].bufp[d] = b, ![s].nget[d] = @ + 1,
                                      ![s].cp[d] = "copy"]
          /\ UNCHANGED <<bufFree, bufMade>>
     \/ /\ bufMade' = bufMade + 1
        /\ relays' = [relays EXCEPT ![s].bufp[d] = bufMade + 1,
                                    ![s].nget[d] = @ + 1,
                                    ![s].cp[d] = "copy"]
        /\ bufFree' = bufFree
  /\ gets' = gets + 1
  /\ UNCHANGED <<connVars, fnVars, spc, spIP, spRet, acceptErrs, conns, puts>>

\* line 286: bufPool.Get gives a free buffer, or a new one
PoolGet(s, d) ==
  /\ relays[s].cp[d] = "get"
  /\ \/ \E b \in bufFree :
          /\ bufFree' = bufFree \ {b}
          /\ relays' = [relays EXCEPT ![s].bufp[d] = b, ![s].nget[d] = @ + 1,
                                      ![s].cp[d] = "copy"]
          /\ bufMade' = bufMade
     \/ /\ bufMade' = bufMade + 1
        /\ relays' = [relays EXCEPT ![s].bufp[d] = bufMade + 1,
                                    ![s].nget[d] = @ + 1,
                                    ![s].cp[d] = "copy"]
        /\ bufFree' = bufFree
  /\ gets' = gets + 1
  /\ UNCHANGED <<connVars, fnVars, spc, spIP, spRet, acceptErrs, conns, puts>>

\* PoolCopyEnd, were Put not deferred and skipped when the copy fails
PoolCopyEndLeak(s, d) ==
  /\ relays[s].cp[d] = "copy"
  /\ \E h \in {"eof", "error"} :
       /\ relays' = [relays EXCEPT
                       ![s].how[d] = h,
                       ![s].bufp[d] = 0,
                       ![s].nput[d] = IF h = "eof" THEN @ + 1 ELSE @,
                       ![s].cp[d] = "done"]
       /\ bufFree' = IF h = "eof" THEN bufFree \cup {relays[s].bufp[d]}
                                  ELSE bufFree
       /\ puts' = IF h = "eof" THEN puts + 1 ELSE puts
  /\ UNCHANGED <<connVars, fnVars, spc, spIP, spRet, acceptErrs, conns, bufMade,
                 gets>>

\* lines 289-297 and the deferred line 287: io.CopyBuffer returns, at the
\* end of the stream or on an I/O error, the halves are closed and
\* bufPool.Put gives the buffer back
PoolCopyEnd(s, d) ==
  /\ relays[s].cp[d] = "copy"
  /\ \E h \in {"eof", "error"} :
       relays' = [relays EXCEPT ![s].how[d] = h, ![s].bufp[d] = 0,
                                ![s].nput[d] = @ + 1, ![s].cp[d] = "done"]
  /\ bufFree' = bufFree \cup {relays[s].bufp[d]}
  /\ puts' = puts + 1
  /\ UNCHANGED <<connVars, fnVars, spc, spIP, spRet, acceptErrs, conns, bufMade,
                 gets>>

\* line 280: both copies are done, wg.Wait returns and the session ends
PoolWait(s) ==
  /\ ~relays[s].done
  /\ \A d \in Dirs : relays[s].cp[d] = "done"
  /\ relays' = [relays EXCEPT ![s].done = TRUE]
  /\ UNCHANGED <<connVars, fnVars, spc, spIP, spRet, acceptErrs, conns, bufFree,
                 bufMade, gets, puts>>

PoolNext ==
  \/ PoolRelay
  \/ \E s \in DOMAIN relays : \E d \in Dirs : PoolGet(s, d)
  \/ \E s \in DOMAIN relays : \E d \in Dirs : PoolCopyEnd(s, d)
  \/ \E s \in DOMAIN relays : PoolWait(s)

SpecPool == Init /\ [][PoolNext]_vars

\* ----------------------------------------------- sendReply on its own
\* the statuses sendReply is called with, the addresses a connection may
\* be bound to (4-byte, IPv4-mapped, and other 16-byte addresses) and its
\* ports
FailStatuses == {repGeneralFailure, repNetworkUnreachable,
                 repHostUnreachable, repConnectionRefused,
                 repCommandNotSupported, repAddrTypeNotSupported}
BindIPs == {<<127, 0, 0, 1>>, <<10, 0, 0, 2>>,
            <<0, 0, 0, 0, 0, 0, 0, 0, 0, 0, 255, 255, 127, 0, 0, 1>>,
            <<0, 0, 0, 0, 0, 0, 0, 0, 0, 0, 0, 0, 127, 0, 0, 1>>,
            <<0, 0, 0, 0, 0, 0, 0, 0, 0, 0, 0, 0, 0, 0, 0, 0>>,
            <<0, 0, 0, 0, 0, 0, 0, 0, 0, 0, 0, 0, 0, 0, 0, 1>>,
            <<32, 1, 13, 184, 0, 0, 0, 0, 0, 0, 0, 0, 0, 0, 0, 1>>}
BindPorts == {0, 80, 255, 256, 443, 49153, 65535}

\* lines 151-180, on the address field of a reply: the address type, then
\* net.IP(addr[:]) of the four or sixteen bytes that follow it
DecodeAddr(b) ==
  IF b[4] = atypIPv4 THEN [atyp |-> atypIPv4, ip |-> SubSeq(b, 5, 8)]
  ELSE IF b[4] = atypIPv6 THEN [atyp |-> atypIPv6, ip |-> SubSeq(b, 5, 20)]
  ELSE [atyp |-> b[4], ip |-> None]

\* lines 143, 165, 183, 215: sendReply(client, rep, nil, 0)
CallReplyNil ==
  /\ bind = None
  /\ \E r \in FailStatuses : bind' = [rep |-> r, ip |-> None, port |-> 0]
  /\ UNCHANGED <<connVars, spc, spIP, spRet, acceptErrs, conns, poolVars, wr,
                 cfgIn, cfgRet, tuner>>

\* line 221: sendReply(client, repSuccess, boundAddr.IP, boundAddr.Port)
CallReplyBound ==
  /\ bind = None
  /\ \E ip \in BindIPs, p \in BindPorts :
       bind' = [rep |-> repSuccess, ip |-> ip, port |-> p]
  /\ UNCHANGED <<connVars, spc, spIP, spRet, acceptErrs, conns, poolVars, wr,
                 cfgIn, cfgRet, tuner>>

\* lines 232-259
SendReply ==
  /\ bind # None /\ wr = None
  /\ wr' = ReplyBytes(bind.rep, bind.ip, bind.port)
  /\ UNCHANGED <<connVars, spc, spIP, spRet, acceptErrs, conns, poolVars,
                 bind, cfgIn, cfgRet, tuner>>

ReplyNext == CallReplyNil \/ CallReplyBound \/ SendReply

SpecReply == Init /\ [][ReplyNext]_vars

\* ---------------------------------------------- LoadConfig on its own
\* the texts of the ipv6 fields, the ports and the interface names of the
\* configuration files looked at
AddrTexts == {"2001:db8::1", "2001:0db8:0::1", "2001:db8::2", "1.2.3.4",
              "::ffff:1.2.3.4", "bad"}
PortNums == {0, 1080, 1081, 65536}
Interfaces == {"", "eth0"}

\* net.ParseIP on these texts: the 16-byte address, or None
ParseIP(t) ==
  CASE t = "2001:db8::1" ->
         <<32, 1, 13, 184, 0, 0, 0, 0, 0, 0, 0, 0, 0, 0, 0, 1>>
    [] t = "2001:0db8:0::1" ->
         <<32, 1, 13, 184, 0, 0, 0, 0, 0, 0, 0, 0, 0, 0, 0, 1>>
    [] t = "2001:db8::2" ->
         <<32, 1, 13, 184, 0, 0, 0, 0, 0, 0, 0, 0, 0, 0, 0, 2>>
    [] t = "1.2.3.4" ->
         <<0, 0, 0, 0, 0, 0, 0, 0, 0, 0, 255, 255, 1, 2, 3, 4>>
    [] t = "::ffff:1.2.3.4" ->
         <<0, 0, 0, 0, 0, 0, 0, 0, 0, 0, 255, 255, 1, 2, 3, 4>>
    [] OTHER -> None

\* net.IP.String on the addresses above
IPText(ip) ==
  IF To4(ip) # None THEN "1.2.3.4"
  ELSE IF ip[16] = 1 THEN "2001:db8::1" ELSE "2001:db8::2"

\* the files: one that cannot be read, one that is not YAML, and those
\* that decode to an interface and up to MaxEntries proxies
ProxyLists ==
  UNION {[1..n -> [ipv6 : AddrTexts, port : PortNums]] : n \in 0..MaxEntries}
ConfigFiles ==
  {[file |-> f, interface |-> "", proxies |-> <<>>] :
      f \in {"unreadable", "malformed"}}
  \cup [file : {"ok"}, interface : Interfaces, proxies : ProxyLists]

ConfigError(e) == [cfg |-> None, err |-> e]

\* Validate, were the duplicates looked for among the texts as written
RECURSIVE ValidateRawDup(_, _, _, _)
ValidateRawDup(ps, i, seen, seenPorts) ==
  IF i > Len(ps) THEN [cfg |-> ps, err |-> ""]
  ELSE
    LET p == ps[i]
        ip == ParseIP(p.ipv6)
    IN  IF ip = None THEN ConfigError("invalid IP address")
        ELSE IF To4(ip) # None THEN ConfigError("is IPv4")
        ELSE IF p.port < 1 \/ p.port > 65535
        THEN ConfigError("port out of range")
        ELSE IF p.ipv6 \in seen THEN ConfigError("duplicate IPv6")
        ELSE IF p.port \in seenPorts THEN ConfigError("duplicate port")
        ELSE ValidateRawDup([ps EXCEPT ![i].ipv6 = IPText(ip)], i + 1,
                            seen \cup {p.ipv6}, seenPorts \cup {p.port})

\* lines 42-75: the loop over cfg.Proxies from entry i on, with the maps
\* seen and seenPorts; ps is cfg.Proxies, normalised in place
RECURSIVE Validate(_, _, _, _)
Validate(ps, i, seen, seenPorts) ==
  IF i > Len(ps) THEN [cfg |-> ps, err |-> ""]
  ELSE
    LET p == ps[i]
        ip == ParseIP(p.ipv6)
    IN  IF ip = None THEN ConfigError("invalid IP address")
        ELSE IF To4(ip) # None THEN ConfigError("is IPv4")
        ELSE IF p.port < 1 \/ p.port > 65535
        THEN ConfigError("port out of range")
        ELSE IF IPText(ip) \in seen THEN ConfigError("duplicate IPv6")
        ELSE IF p.port \in seenPorts THEN ConfigError("duplicate port")
        ELSE Validate([ps EXCEPT ![i].ipv6 = IPText(ip)], i + 1,
                      seen \cup {IPText(ip)}, seenPorts \cup {p.port})

\* lines 23-78: what LoadConfig returns for a file
LoadConfigOf(in) ==
  IF in.file = "unreadable" THEN ConfigError("read config")
  ELSE IF in.file = "malformed" THEN ConfigError("parse config")
  ELSE IF in.interface = "" THEN ConfigError("interface is required")
  ELSE IF Len(in.proxies) = 0 THEN ConfigError("no proxy entry")
  ELSE LET v == Validate(in.proxies, 1, {}, {})
       IN  IF v.err # "" THEN v
           ELSE [cfg |-> [interface |-> in.interface, proxies |-> v.cfg],
                 err |-> ""]

\* a call of LoadConfig
LoadConfig ==
  /\ cfgIn = None
  /\ \E in \in ConfigFiles :
       /\ cfgIn' = in
       /\ cfgRet' = LoadConfigOf(in)
  /\ UNCHANGED <<connVars, spc, spIP, spRet, acceptErrs, conns, poolVars,
                 bind, wr, tuner>>

ConfigNext == LoadConfig

SpecConfig == Init /\ [][ConfigNext]_vars

\* ----------------------------------------- setSocketOptions on its own
\* the setsockopt calls of the linux build, in order
SockOpts ==
  <<[level |-> "SOL_SOCKET", name |-> "SO_REUSEADDR", val |-> 1],
    [level |-> "IPPROTO_TCP", name |-> "TCP_NODELAY", val |-> 1],
    [level |-> "SOL_SOCKET", name |-> "SO_KEEPALIVE", val |-> 1],
    [level |-> "IPPROTO_TCP", name |-> "TCP_KEEPIDLE", val |-> 30],
    [level |-> "IPPROTO_TCP", name |-> "TCP_KEEPINTVL", val |-> 10],
    [level |-> "IPPROTO_TCP", name |-> "TCP_KEEPCNT", val |-> 3]>>

\* the errors a setsockopt may fail with, the builds and the networks of
\* the outbound socket
SockErrnos == {"EPERM", "ENOPROTOOPT", "EINVAL"}
Platforms == {"linux", "other"}
Networks == {"tcp4", "tcp6"}

\* the dialer calls Control: setSocketOptions on the new socket; the build
\* that is not linux has the function that returns nil
TunerCall ==
  /\ tuner.st = "idle"
  /\ \E pl \in Platforms, nw \in Networks :
       tuner' = [tuner EXCEPT !.platform = pl, !.network = nw,
                              !.st = IF pl = "linux" THEN "control"
                                     ELSE "return"]
  /\ UNCHANGED <<connVars, spc, spIP, spRet, acceptErrs, conns, poolVars,
                 bind, wr, cfgIn, cfgRet>>

\* netif.go lines 86 and 123-125: c.Control itself fails, its error is
\* returned
TunerControlErr ==
  /\ tuner.st = "control" /\ tuner.next = 1
  /\ tuner' = [tuner EXCEPT !.ret = "EBADF", !.st = "returned"]
  /\ UNCHANGED <<connVars, spc, spIP, spRet, acceptErrs, conns, poolVars,
                 bind, wr, cfgIn, cfgRet>>

\* netif.go lines 88-121: the next setsockopt; when it fails sysErr is set
\* and the function literal returns
TunerSetOpt ==
  /\ tuner.st = "control"
  /\ \/ tuner' = [tuner EXCEPT
                    !.set = Append(@, SockOpts[tuner.next]),
                    !.next = @ + 1,
                    !.st = IF tuner.next = Len(SockOpts) THEN "return"
                           ELSE "control"]
     \/ \E e \in SockErrnos :
          tuner' = [tuner EXCEPT !.sysErr = e, !.failedAt = tuner.next,
                                 !.st = "return"]
  /\ UNCHANGED <<connVars, spc, spIP, spRet, acceptErrs, conns, poolVars,
                 bind, wr, cfgIn, cfgRet>>

\* netif.go line 126, and part_000 line 11: return sysErr / return nil
TunerReturn ==
  /\ tuner.st = "return"
  /\ tuner' = [tuner EXCEPT !.ret = tuner.sysErr, !.st = "returned"]
  /\ UNCHANGED <<connVars, spc, spIP, spRet, acceptErrs, conns, poolVars,
                 bind, wr, cfgIn, cfgRet>>

\* proxy.go lines 197-204: the dialer gives up when Control returns an
\* error, and connects otherwise
TunerDial ==
  /\ tuner.st = "returned"
  /\ \E o \in {"connected", "failed"} :
       tuner' = [tuner EXCEPT !.st = "dialed",
                              !.dial = IF tuner.ret # "" THEN "failed" ELSE o]
  /\ UNCHANGED <<connVars, spc, spIP, spRet, acceptErrs, conns, poolVars,
                 bind, wr, cfgIn, cfgRet>>

TunerNext ==
  TunerCall \/ TunerControlErr \/ TunerSetOpt \/ TunerReturn \/ TunerDial

SpecTuner == Init /\ [][TunerNext]_vars



\* ---------------------------------------------------------- vocabulary
\* the positions of the Write calls of sendReply in out
Replies == {i \in DOMAIN out : out[i].by = "sendReply"}

\* a Write call put its bytes on the client socket: a Write after the
\* deadline returns before anything is sent
Issued(w) == w.res # "timeout"

\* the session is in the Relaying phase
Relaying == pc \in {"clearDeadlines", "relay", "wait"}

\* the session is over, or about to close the client socket as its last act
Closing ==
  /\ pc \in {"closeClient", "done"}
  /\ pc = "done" => "client" \in closed

\* no copy direction was ever started and no byte was ever relayed
NothingRelayed ==
  /\ \A d \in Dirs : cpc[d] = "idle"
  /\ rout = <<>>
  /\ \A i \in DOMAIN out : out[i].by # "relay"

\* the reply of a rejection: status rep, address type 1, zero address, port 0
FailureReply(rep) == <<5, rep, 0, 1, 0, 0, 0, 0, 0, 0>>

\* the exits taken on malformed input, in the greeting and in the request
GreetingDrops == {"readHdr", "badVersion", "noMethods", "readMethods"}
RequestDrops == {"readReqHdr", "badReqVersion", "readAddr4", "readDomainLen",
                 "readDomain", "readAddr6", "readPort"}

\* ------------------------------------------------------------------ C1
\* C1: once a reply with a status other than success has been written, the
\* session is not and will not be in Relaying, no copy direction runs and
\* no byte is relayed; all that is left to it is to close the client socket.
C1_NoRelayAfterFailureReply ==
  (\E i \in Replies : out[i].data[2] # 0) =>
     /\ ~Relaying
     /\ NothingRelayed
     /\ Closing

C1_Witness ==
  /\ pc = "done"
  /\ \E i \in Replies : out[i].data[2] = 7 /\ out[i].res = "ok"

\* ------------------------------------------------------------------ C2
\* C2: a reply is written at most once; a session whose handshake ended in
\* success or in a rejection (command, address type, empty name, dial
\* failure) has put exactly one reply on the client socket; one that ended
\* on an I/O error while parsing has written none.
C2_ReplyExactlyOnce ==
  /\ Cardinality(Replies) <= 1
  /\ (Relaying \/ exit \in {"relayDone", "cmd", "atyp", "emptyDomain", "dialErr"})
        => \E i \in Replies : Issued(out[i])
  /\ exit \in (GreetingDrops \cup RequestDrops) => Replies = {}

\* ------------------------------------------------------------------ C3
\* C3: while the session is in Relaying, and whenever a byte of the
\* destination has been written to the client, a success reply carrying the
\* local address and port of the destination connection has been put on
\* the client socket before.
C3_SuccessReplyBeforeRelay ==
  LET good(i) == /\ i \in Replies
                 /\ Issued(out[i])
                 /\ out[i].data = <<5, 0, 0, 4>> \o remote.ip
                                    \o <<remote.port \div 256, remote.port % 256>>
  IN  /\ Relaying => \E i \in DOMAIN out : good(i)
      /\ \A j \in DOMAIN out :
           out[j].by = "relay" => \E i \in 1..(j - 1) : good(i)

\* ------------------------------------------------------------------ C4
\* C4: when the dial has failed, whatever the class of the failure, exactly
\* one failure reply is put on the client socket before the socket is
\* closed, and the session is never in Relaying.
C4_DialFailureReplied ==
  dialErr # "" =>
     /\ ~Relaying /\ NothingRelayed
     /\ pc \in {"closeClient", "done"} =>
          /\ Cardinality(Replies) = 1
          /\ \A i \in Replies : Issued(out[i]) /\ out[i].data[2] # 0

\* ------------------------------------------------------------------ C5
\* C5: the status of the reply to a failed dial depends on the error class
\* alone: refused 5, network unreachable 3, host unreachable 4, any other
\* class 1.
C5_DialStatusByClass ==
  exit = "dialErr" =>
     /\ Replies # {}
     /\ \A i \in Replies :
          /\ out[i].data = FailureReply(out[i].data[2])
          /\ dialErr = "ECONNREFUSED" => out[i].data[2] = 5
          /\ dialErr = "ENETUNREACH" => out[i].data[2] = 3
          /\ dialErr = "EHOSTUNREACH" => out[i].data[2] = 4
          /\ dialErr \notin {"ECONNREFUSED", "ENETUNREACH", "EHOSTUNREACH"}
               => out[i].data[2] = 1

C5_Witness ==
  /\ exit = "dialErr" /\ dialErr = "EHOSTUNREACH"
  /\ \E i \in Replies : out[i].data[2] = 4 /\ out[i].res = "ok"

\* ------------------------------------------------------------------ C6
\* the greeting has been read in full and the selection step has run
Selected == methods # None /\ pc # "selectMethod"
OffersNoAuth == \E i \in DOMAIN methods : methods[i] = 0

\* C6 as stated: after a greeting that lists no-auth the server has written
\* VER=5, METHOD=0 and has advanced to AwaitRequest.
C6_AlwaysAdvances ==
  (Selected /\ OffersNoAuth) =>
     /\ Len(out) >= 1
     /\ out[1].by = "methodSelect" /\ out[1].data = <<5, 0>>
     /\ Issued(out[1])
     /\ exit # "selectWrite"

\* C6 amended: after a greeting that lists no-auth, at any position, the
\* server has written VER=5, METHOD=0; it has advanced to AwaitRequest when
\* that Write succeeded, and has returned without reading a request when
\* the Write failed.
C6_SelectsNoAuth ==
  (Selected /\ OffersNoAuth) =>
     /\ Len(out) >= 1
     /\ out[1].by = "methodSelect" /\ out[1].data = <<5, 0>>
     /\ Issued(out[1])
     /\ out[1].res = "ok" =>
          /\ exit # "selectWrite"
          /\ pc = "readReqHdr" \/ exit = "readReqHdr" \/ reqHdr # None
     /\ out[1].res # "ok" =>
          /\ exit = "selectWrite" /\ reqHdr = None /\ Len(out) = 1 /\ Closing

C6_Witness ==
  /\ methods = <<2, 0>>
  /\ out = <<[by |-> "methodSelect", data |-> <<5, 0>>, res |-> "ok"]>>
  /\ pc = "readReqHdr"

\* ------------------------------------------------------------------ C7
\* C7: after a greeting that does not list no-auth the server has written
\* VER=5, METHOD=0xFF and nothing else, has read no request, has made no
\* dial, and closes the connection.
C7_NoneAcceptable ==
  (Selected /\ ~OffersNoAuth) =>
     /\ Len(out) = 1
     /\ out[1].by = "methodReject" /\ out[1].data = <<5, 255>>
     /\ Issued(out[1])
     /\ reqHdr = None /\ domainLen = -1 /\ destAddr = None
     /\ dials = <<>> /\ remote = None
     /\ NothingRelayed
     /\ Closing

C7_Witness ==
  /\ methods = <<2, 2>> /\ pc = "done"
  /\ out = <<[by |-> "methodReject", data |-> <<5, 255>>, res |-> "ok"]>>

\* ------------------------------------------------------------------ C8
\* C8: a request header with version 5 and a command other than CONNECT is
\* answered by one reply of status 7, and the session makes no dial.
C8_CommandNotSupported ==
  (reqHdr # None /\ reqHdr[1] = 5 /\ reqHdr[2] # 1) =>
     /\ dials = <<>> /\ remote = None
     /\ pc # "replyCmd" =>
          /\ Len(out) = 2
          /\ out[2].by = "sendReply" /\ out[2].data = FailureReply(7)
          /\ Issued(out[2])
          /\ Closing

C8_Witness ==
  /\ reqHdr # None /\ reqHdr[1] = 5 /\ reqHdr[2] = 2
  /\ pc = "done"
  /\ Len(out) = 2 /\ out[2].data[2] = 7 /\ out[2].res = "ok"

\* ------------------------------------------------------------------ C9
\* C9: on malformed input (a version other than 5 in the greeting or in the
\* request header, no methods, a failed read of the greeting or of the
\* request) the server writes nothing more (nothing at all in the greeting,
\* nothing after the method selection in the request), makes no dial, and
\* closes the connection.
C9_MalformedDroppedSilently ==
  /\ exit \in GreetingDrops => out = <<>>
  /\ exit \in RequestDrops =>
       Len(out) = 1 /\ out[1].by = "methodSelect"
  /\ exit \in (GreetingDrops \cup RequestDrops) =>
       /\ dials = <<>> /\ remote = None
       /\ NothingRelayed
       /\ Closing
  /\ (hdr # None /\ (hdr[1] # 5 \/ hdr[2] = 0)) => exit \in GreetingDrops
  /\ (reqHdr # None /\ reqHdr[1] # 5) => exit \in RequestDrops

C9_Witness ==
  /\ pc = "done" /\ exit = "badReqVersion"
  /\ reqHdr # None /\ reqHdr[1] = 4
  /\ Len(out) = 1

\* ----------------------------------------------------------------- C10
\* C10: a CONNECT request with a name of length zero is answered with
\* status 1, one with an address type other than 1, 3, 4 with status 8;
\* in both cases no dial is made and the connection is closed.
C10_EmptyNameAndUnknownAtyp ==
  LET connect == reqHdr # None /\ reqHdr[1] = 5 /\ reqHdr[2] = 1
      emptyName == connect /\ reqHdr[4] = 3 /\ domainLen = 0
      unknown == connect /\ reqHdr[4] \notin {1, 3, 4}
      answered(rep) ==
        /\ Len(out) = 2
        /\ out[2].by = "sendReply" /\ out[2].data = FailureReply(rep)
        /\ Issued(out[2])
        /\ Closing
  IN  /\ (emptyName \/ unknown) => dials = <<>> /\ remote = None
      /\ (emptyName /\ pc # "replyEmptyDomain") => answered(1)
      /\ (unknown /\ pc # "replyAtyp") => answered(8)

C10_Witness ==
  /\ pc = "done"
  /\ reqHdr # None /\ reqHdr[2] = 1 /\ reqHdr[4] = 3 /\ domainLen = 0
  /\ Len(out) = 2 /\ out[2].data[2] = 1 /\ out[2].res = "ok"


\* ----------------------------------------------------------------- C11
\* C11: the deadline of the handshake is set once, to 10 units from accept,
\* and never set anew while greeting and request are read; when it has run
\* out before the request is complete the session has written no reply,
\* makes no dial, and closes the client socket.
C11_Expired ==
  /\ (pc # "setDeadline" /\ dials = <<>>) => left \in 0..10
  /\ (left = 0 /\ dials = <<>>) =>
       /\ pc \in ReadPcs \cup {"closeClient", "done"}
       /\ Replies = {} /\ remote = None /\ NothingRelayed
       /\ pc \notin ReadPcs =>
            exit \in (GreetingDrops \cup RequestDrops) /\ Closing

C11_HandshakeDeadline ==
  /\ []C11_Expired
  /\ [][(left # -1 /\ left' # -1) => left' <= left]_vars

C11_Witness ==
  /\ pc = "done" /\ exit = "readPort" /\ left = 0
  /\ ~clientGone /\ ~clientEOF
  /\ Len(out) = 1 /\ dials = <<>> /\ "client" \in closed

\* ----------------------------------------------------------------- C12
\* C12: relay has returned only when both copy directions are complete;
\* while a direction is still at work the handler waits and no socket is
\* closed, also when the other direction is complete.
C12_RelayBarrier ==
  /\ (remote # None /\ pc \in {"closeRemote", "closeClient", "done"}) =>
       /\ exit = "relayDone"
       /\ cpc["up"] = "done" /\ cpc["down"] = "done" /\ wg = 0
  /\ (cpc["up"] \notin {"idle", "done"} \/ cpc["down"] \notin {"idle", "done"}) =>
       pc = "wait" /\ closed = {} /\ wg > 0

C12_Witness ==
  /\ pc = "wait" /\ closed = {}
  /\ cpc["up"] = "done" /\ cpc["down"] = "read"

\* ----------------------------------------------------------------- C13
\* C13: a copy direction that is complete has closed the write side of its
\* sink and the read side of its source and nothing else; while a direction
\* still copies, the read side of its source and the write side of its sink
\* are open and none of its writes was refused by a closed half.
C13_HalfClose ==
  /\ <<"remote", "w">> \in shut <=> cpc["up"] \in {"closeRead", "put", "done"}
  /\ <<"client", "r">> \in shut <=> cpc["up"] \in {"put", "done"}
  /\ <<"client", "w">> \in shut <=> cpc["down"] \in {"closeRead", "put", "done"}
  /\ <<"remote", "r">> \in shut <=> cpc["down"] \in {"put", "done"}
  /\ cpc["up"] \in {"get", "read", "write"} =>
       /\ <<"client", "r">> \notin shut /\ <<"remote", "w">> \notin shut
       /\ closed = {}
  /\ cpc["down"] \in {"get", "read", "write"} =>
       /\ <<"remote", "r">> \notin shut /\ <<"client", "w">> \notin shut
       /\ closed = {}
  /\ \A i \in DOMAIN rout : rout[i].res # "shut"
  /\ \A i \in DOMAIN out : out[i].res # "shut"

C13_Witness ==
  /\ cpc["up"] = "done" /\ cpc["down"] = "write"
  /\ shut = {<<"remote", "w">>, <<"client", "r">>}
  /\ ~clientGone /\ ~remoteGone

\* ----------------------------------------------------------------- C19
\* C19: a session calls the dialer at most once and has at most the one
\* destination socket of that call; every return leads to the Close of the
\* client socket, and to the Close of the destination socket first when
\* there is one.
C19_OneDialSocketsClosed ==
  /\ Len(dials) <= 1
  /\ remote # None => Len(dials) = 1 /\ dialErr = ""
  /\ exit # "" => pc \in {"closeRemote", "closeClient", "done"}
  /\ (pc \in {"closeClient", "done"} /\ remote # None) => "remote" \in closed
  /\ pc = "done" => "client" \in closed
  /\ "remote" \in closed => remote # None

C19_Witness ==
  /\ pc = "done" /\ exit = "relayDone"
  /\ closed = {"client", "remote"}


\* ----------------------------------------------------- relayed streams
RECURSIVE Flat(_)
Flat(ws) == IF ws = <<>> THEN <<>> ELSE Head(ws) \o Flat(Tail(ws))

\* the Write calls of the relay that were taken, per direction
RelayWrites(d) ==
  IF d = "up" THEN SelectSeq(rout, LAMBDA w : w.res = "ok")
  ELSE SelectSeq(out, LAMBDA w : w.by = "relay" /\ w.res = "ok")

\* the bytes delivered to the sink of a direction
Delivered(d) == Flat([i \in DOMAIN RelayWrites(d) |-> RelayWrites(d)[i].data])

IsPrefix(a, b) == Len(a) <= Len(b) /\ a = SubSeq(b, 1, Len(a))

\* ----------------------------------------------------------------- C14
\* C14: once the client has closed its write side, the write side of the
\* destination socket is eventually closed, so that the destination sees
\* the end of the stream; when that happens with no error in the direction,
\* every byte the client sent has been delivered before; and once both
\* directions are complete the session closes both sockets and ends.
C14_AllDeliveredAtEof ==
  (/\ <<"remote", "w">> \in shut
   /\ ~clientGone
   /\ \A i \in DOMAIN rout : rout[i].res = "ok")
     => Delivered("up") = sent["up"]

C14_HalfCloseTerminates ==
  /\ []C14_AllDeliveredAtEof
  /\ clientEOF ~> (<<"remote", "w">> \in shut)
  /\ (cpc["up"] = "done" /\ cpc["down"] = "done")
       ~> (pc = "done" /\ closed = {"client", "remote"})

C14_Witness ==
  /\ clientEOF /\ ~clientGone /\ ~remoteGone /\ remoteEOF
  /\ Len(sent["up"]) = 2 /\ Delivered("up") = sent["up"]
  /\ <<"remote", "w">> \in shut
  /\ pc = "done" /\ closed = {"client", "remote"}

\* ----------------------------------------------------------------- C15
\* C15: in each direction the bytes delivered to the sink are at every
\* moment a prefix of the bytes the source has sent, whatever the sizes of
\* the reads; the bytes read and not yet written, and those not yet read,
\* are the ones that follow in the stream.
C15_StreamPrefix ==
  \A d \in Dirs :
    /\ IsPrefix(Delivered(d), sent[d])
    /\ IsPrefix(Delivered(d) \o chunk[d], sent[d])
    /\ cpc[d] \in {"idle", "get", "read", "write"} =>
         Delivered(d) \o chunk[d] \o inq[d] = sent[d]

C15_Witness ==
  /\ Delivered("up") = <<11, 12>> /\ Len(rout) = 1
  /\ Delivered("down") = <<21, 22>>
  /\ Len(SelectSeq(out, LAMBDA w : w.by = "relay")) = 2


\* ----------------------------------------------------------------- C16
\* C16: every dial of a session asks for the outbound address configured
\* for the endpoint the session was accepted on, whatever the other
\* sessions do, and sessions of different endpoints never dial from the
\* same address.
C16_SourceIsEndpointAddress ==
  /\ \A s \in DOMAIN conns :
       conns[s].local # None =>
         conns[s].local = <<32, 1, 13, 184, 0, 0, 0, 0,
                            0, 0, 0, 0, 0, 0, 0, conns[s].ep>>
  /\ \A s, t \in DOMAIN conns :
       (/\ conns[s].ep # conns[t].ep
        /\ conns[s].local # None /\ conns[t].local # None)
         => conns[s].local # conns[t].local

C16_Witness ==
  \E s, t \in DOMAIN conns :
    /\ conns[s].ep = 1 /\ conns[t].ep = 2
    /\ conns[s].st = "relay" /\ conns[t].st = "relay"
    /\ conns[s].local = EntryIPv6(1) /\ conns[t].local = EntryIPv6(2)

\* ----------------------------------------------------------------- C17
\* C17: every copy direction releases the buffer it acquired exactly once,
\* whether the copy ended at the end of the stream or on an error: a
\* direction never calls Put more often than Get nor more than once, a
\* buffer in use by a copy is not in the pool, and once every session has
\* completed the calls of Get and of Put are equal in number.
C17_AcquireReleaseBalanced ==
  /\ puts <= gets
  /\ \A s \in DOMAIN relays : \A d \in Dirs :
       /\ relays[s].nput[d] <= relays[s].nget[d]
       /\ relays[s].nget[d] <= 1
       /\ relays[s].cp[d] = "copy" =>
            relays[s].bufp[d] # 0 /\ relays[s].bufp[d] \notin bufFree
       /\ relays[s].cp[d] = "done" =>
            relays[s].nput[d] = 1 /\ relays[s].nget[d] = 1
  /\ (\A s \in DOMAIN relays : relays[s].done) => gets = puts

C17_Witness ==
  /\ Len(relays) = 2
  /\ \A s \in DOMAIN relays : relays[s].done
  /\ gets = 4 /\ puts = 4
  /\ relays[1].how["up"] = "error" /\ relays[1].how["down"] = "eof"

\* ----------------------------------------------------------------- C18
\* C18: no two copy operations hold the same buffer at the same time, a
\* buffer that is held is not free, and a copy operation that asks for a
\* buffer can always get one.
C18_BufferExclusive ==
  /\ \A s, t \in DOMAIN relays : \A d, e \in Dirs :
       (/\ <<s, d>> # <<t, e>>
        /\ relays[s].bufp[d] # 0)
         => relays[s].bufp[d] # relays[t].bufp[e]
  /\ \A s \in DOMAIN relays : \A d \in Dirs :
       /\ relays[s].bufp[d] # 0 => relays[s].bufp[d] \notin bufFree
       /\ relays[s].cp[d] = "get" => ENABLED PoolGet(s, d)

C18_Witness ==
  \E s, t \in DOMAIN relays :
    /\ s # t
    /\ relays[s].bufp["up"] # 0 /\ relays[t].bufp["up"] # 0
    /\ relays[s].cp["down"] = "done"
    /\ gets > bufMade

\* ----------------------------------------------------------------- C20
\* C20: a failed Accept that is logged leaves the listener in its accept
\* loop, where it still accepts connections; a listener leaves the accept
\* loop only by returning nil; neither changes any session.
C20_LoopRunning ==
  \A e \in Endpoints :
    /\ acceptErrs[e] > 0 => spc[e] \in {"accept", "returned"}
    /\ (spc[e] = "accept" /\ Len(conns) < MaxSessions) => ENABLED SpAccept(e)

C20_AcceptStep ==
  \A e \in Endpoints :
    /\ acceptErrs'[e] # acceptErrs[e] =>
         spc'[e] = "accept" /\ spRet'[e] = "" /\ conns' = conns
    /\ (spc[e] = "accept" /\ spc'[e] # "accept") =>
         spc'[e] = "returned" /\ spRet'[e] = "nil" /\ conns' = conns

C20_AcceptErrors == []C20_LoopRunning /\ [][C20_AcceptStep]_vars

C20_Witness ==
  \E s, t \in DOMAIN conns :
    /\ conns[s].errs = 1 /\ conns[s].st = "relay"
    /\ spc[conns[t].ep] = "returned" /\ spRet[conns[t].ep] = "nil"
    /\ conns[t].st = "relay"

\* ----------------------------------------------------------------- C21
\* C21: while relay runs no deadline is armed and no Write of the relay is
\* refused by one; a copy direction ends only when a peer has closed its
\* write side or reset the connection; and a session whose two peers are
\* both open stays in relay.
C21_NoDeadlineInRelay ==
  /\ pc \in {"relay", "wait"} => left = -1
  /\ \A i \in DOMAIN out : out[i].by = "relay" => out[i].res # "timeout"
  /\ \A d \in Dirs :
       cpc[d] \in {"closeWrite", "closeRead", "put", "done"} =>
         clientGone \/ clientEOF \/ remoteGone \/ remoteEOF
  /\ exit = "relayDone" =>
       clientGone \/ clientEOF \/ remoteGone \/ remoteEOF

C21_StaysInRelay ==
  (/\ pc \in {"relay", "wait"}
   /\ ~clientGone /\ ~clientEOF /\ ~remoteGone /\ ~remoteEOF)
     => pc' \in {"relay", "wait"}

C21_RelayUnbounded == []C21_NoDeadlineInRelay /\ [][C21_StaysInRelay]_vars

C21_Witness ==
  /\ pc = "wait" /\ left = -1
  /\ ~clientGone /\ ~clientEOF /\ ~remoteGone /\ ~remoteEOF
  /\ cpc["up"] = "read" /\ cpc["down"] = "read"
  /\ inq["up"] = <<>> /\ inq["down"] = <<>>
  /\ Len(rout) = 1 /\ rout[1].res = "ok"
  /\ \E i \in DOMAIN out : out[i].by = "relay" /\ out[i].res = "ok"

\* ----------------------------------------------------------------- C22
\* C22: every reply is 5, the status, 0, the address type, the bound
\* address and the bound port in two bytes, high byte first; without a
\* bound address it is type 1, 0.0.0.0 and port 0, ten bytes; with a bound
\* address that is IPv4-shaped (four bytes, or sixteen bytes of the form
\* ::ffff:a.b.c.d) it is type 1 and the four bytes, otherwise type 4 and
\* the sixteen bytes.
C22_ReplyShape ==
  wr # None =>
    /\ wr[1] = 5 /\ wr[2] = bind.rep /\ wr[3] = 0
    /\ wr[Len(wr) - 1] * 256 + wr[Len(wr)] = bind.port
    /\ \A i \in 1..Len(wr) : wr[i] \in 0..255
    /\ IF bind.ip = <<>>
       THEN wr = <<5, bind.rep, 0, 1, 0, 0, 0, 0, 0, 0>>
       ELSE IF Len(bind.ip) = 4
       THEN Len(wr) = 10 /\ wr[4] = 1 /\ SubSeq(wr, 5, 8) = bind.ip
       ELSE IF /\ \A i \in 1..10 : bind.ip[i] = 0
               /\ bind.ip[11] = 255 /\ bind.ip[12] = 255
       THEN Len(wr) = 10 /\ wr[4] = 1
            /\ SubSeq(wr, 5, 8) = SubSeq(bind.ip, 13, 16)
       ELSE Len(wr) = 22 /\ wr[4] = 4 /\ SubSeq(wr, 5, 20) = bind.ip

C22_Witness ==
  /\ wr = <<5, 0, 0, 1, 127, 0, 0, 1, 192, 1>>
  /\ Len(bind.ip) = 16 /\ bind.port = 49153

\* ----------------------------------------------------------------- C23
\* C23 as claimed: a 4-byte address and every 16-byte address, written as
\* the bound address of a success reply and read back, is the same address
\* with the same address type and the same bytes.
C23_RoundTrip ==
  (wr # None /\ bind.ip # None) =>
    /\ DecodeAddr(wr).ip = bind.ip
    /\ DecodeAddr(wr).atyp = IF Len(bind.ip) = 4 THEN 1 ELSE 4

\* C23 as amended: a 4-byte address, and every 16-byte address that is not
\* of the form ::ffff:a.b.c.d, is read back with the same address type and
\* the same bytes; a 16-byte address ::ffff:a.b.c.d is read back as the
\* 4-byte address a.b.c.d with address type 1.
C23_RoundTripUnlessMapped ==
  (wr # None /\ bind.ip # None) =>
    IF /\ Len(bind.ip) = 16
       /\ \A i \in 1..10 : bind.ip[i] = 0
       /\ bind.ip[11] = 255 /\ bind.ip[12] = 255
    THEN /\ DecodeAddr(wr).atyp = 1
         /\ DecodeAddr(wr).ip = SubSeq(bind.ip, 13, 16)
    ELSE /\ DecodeAddr(wr).ip = bind.ip
         /\ DecodeAddr(wr).atyp = IF Len(bind.ip) = 4 THEN 1 ELSE 4

C23_Witness ==
  /\ wr # None
  /\ bind.ip = <<0, 0, 0, 0, 0, 0, 0, 0, 0, 0, 0, 0, 127, 0, 0, 1>>
  /\ DecodeAddr(wr) = [atyp |-> 4, ip |-> bind.ip]

\* ----------------------------------------------------------------- C24
\* C24 as claimed: the reply to a CONNECT request whose name does not
\* resolve has status 3 or 4.
C24_UnresolvedIsUnreachable ==
  \A i \in DOMAIN out :
    (out[i].by = "sendReply" /\ dialErr = "ENOTFOUND") =>
      out[i].data[2] \in {3, 4}

\* C24 as amended: a CONNECT request with address type 3 whose name does
\* not resolve makes the dial fail with an error of none of the three
\* classes, so the one reply written for it has status 1; the session then
\* closes the client socket, and relay is never entered.
C24_UnresolvedIsGeneralFailure ==
  dialErr = "ENOTFOUND" =>
    /\ reqHdr[4] = 3 /\ destAddr.fam = "name"
    /\ remote = <<>>
    /\ pc \in {"replyDialErr", "closeClient", "done"}
    /\ pc = "done" => "client" \in closed
    /\ \A d \in Dirs : cpc[d] = "idle"
    /\ rout = <<>>
    /\ \A i \in DOMAIN out :
         /\ out[i].by # "relay"
         /\ out[i].by = "sendReply" =>
              out[i].data = <<5, 1, 0, 1, 0, 0, 0, 0, 0, 0>>
    /\ pc # "replyDialErr" =>
         /\ exit = "dialErr"
         /\ Cardinality({i \in DOMAIN out : out[i].by = "sendReply"}) = 1

C24_Witness ==
  /\ dialErr = "ENOTFOUND" /\ pc = "done" /\ exit = "dialErr"
  /\ destAddr.fam = "name"
  /\ \E i \in DOMAIN out :
       /\ out[i].by = "sendReply" /\ out[i].res = "ok"
       /\ out[i].data[2] = 1

\* ----------------------------------------------------------------- C27
\* C27: the request header is checked for its version, then its command,
\* then its address type, and the first check that fails decides: a
\* version other than 5 gets no reply whatever the command; with version 5
\* a command other than CONNECT gets status 7 whatever the address type;
\* with version 5 and CONNECT an unknown address type gets status 8; and in
\* all three cases no byte of the address or of the port has been read and
\* nothing is dialled.
C27_CheckOrder ==
  LET replies == {i \in DOMAIN out : out[i].by = "sendReply"}
      rejected == \/ reqHdr[1] # 5
                  \/ reqHdr[2] # 1
                  \/ reqHdr[4] \notin {1, 3, 4}
  IN  reqHdr # <<>> =>
        /\ reqHdr[1] # 5 => replies = {} /\ exit = "badReqVersion"
        /\ (reqHdr[1] = 5 /\ reqHdr[2] # 1) =>
             /\ \A i \in replies : out[i].data[2] = 7
             /\ pc # "replyCmd" =>
                  exit = "cmd" /\ \E i \in replies : out[i].res # "timeout"
        /\ (reqHdr[1] = 5 /\ reqHdr[2] = 1 /\ reqHdr[4] \notin {1, 3, 4}) =>
             /\ \A i \in replies : out[i].data[2] = 8
             /\ pc # "replyAtyp" =>
                  exit = "atyp" /\ \E i \in replies : out[i].res # "timeout"
        /\ rejected =>
             /\ destAddr = <<>> /\ domainLen = -1 /\ destPort = 0
             /\ dials = <<>>
             /\ pc \in {"replyCmd", "replyAtyp", "closeClient", "done"}

C27_Witness ==
  /\ reqHdr = <<5, 2, 0, 9>> /\ pc = "done"
  /\ \E i \in DOMAIN out :
       /\ out[i].by = "sendReply" /\ out[i].res = "ok"
       /\ out[i].data[2] = 7

\* ----------------------------------------------------------------- C25
\* C25: LoadConfig returns a configuration exactly when the file decodes,
\* the interface name is not empty, there is at least one entry, every
\* address is the text of an IPv6 address that is not an IPv4 one, every
\* port is in 1..65535, and no two entries have the same port or texts of
\* the same address; otherwise it returns an error and no configuration.
\* The configuration returned has the entries of the file in their order,
\* each with its port and with its address in normal form.
C25_ConfigValidated ==
  cfgRet # <<>> =>
    LET ps == cfgIn.proxies
        v6 == {"2001:db8::1", "2001:0db8:0::1", "2001:db8::2"}
        norm(t) == IF t = "2001:0db8:0::1" THEN "2001:db8::1" ELSE t
        good == /\ cfgIn.file = "ok"
                /\ cfgIn.interface # ""
                /\ Len(ps) >= 1
                /\ \A i \in 1..Len(ps) :
                     ps[i].ipv6 \in v6 /\ ps[i].port \in 1..65535
                /\ \A i, j \in 1..Len(ps) :
                     i # j => /\ ps[i].port # ps[j].port
                              /\ norm(ps[i].ipv6) # norm(ps[j].ipv6)
    IN  /\ good <=> cfgRet.err = ""
        /\ good <=> cfgRet.cfg # <<>>
        /\ good =>
             /\ cfgRet.cfg.interface = cfgIn.interface
             /\ Len(cfgRet.cfg.proxies) = Len(ps)
             /\ \A i \in 1..Len(ps) :
                  /\ cfgRet.cfg.proxies[i].port = ps[i].port
                  /\ cfgRet.cfg.proxies[i].ipv6 = norm(ps[i].ipv6)

C25_Witness ==
  /\ cfgRet # <<>> /\ cfgRet.err = ""
  /\ cfgIn.proxies = <<[ipv6 |-> "2001:db8::2", port |-> 1081],
                       [ipv6 |-> "2001:0db8:0::1", port |-> 1080]>>
  /\ cfgRet.cfg.proxies = <<[ipv6 |-> "2001:db8::2", port |-> 1081],
                            [ipv6 |-> "2001:db8::1", port |-> 1080]>>

\* ----------------------------------------------------------------- C26
\* C26: when one setsockopt of the tuner fails, the options after it are
\* applied all the same, the tuner returns no error and the dial is not
\* failed by it; on a build that is not linux the tuner sets nothing and
\* returns no error.
C26_BestEffortTuning ==
  /\ (tuner.st \in {"returned", "dialed"} /\ tuner.failedAt # 0) =>
       /\ \A i \in 1..Len(SockOpts) :
            i # tuner.failedAt =>
              \E k \in 1..Len(tuner.set) : tuner.set[k] = SockOpts[i]
       /\ tuner.ret = ""
  /\ (tuner.st \in {"returned", "dialed"} /\ tuner.platform = "other") =>
       tuner.set = <<>> /\ tuner.ret = ""

====
